---- MODULE Spec2Model ----
(***************************************************************************)
(* Model of Mqtt2InfluxDB (src/mqtt2influxdb/mqtt2influxdb.py): the MQTT   *)
(* message handler _on_mqtt_message and the value resolver                 *)
(* _get_value_from_str_or_JSONPath.  One handler invocation is modelled as *)
(* OnMessage (entry), one PointStep per iteration of the loop over the     *)
(* configured points, and Return.                                          *)
(***************************************************************************)
EXTENDS Integers, Sequences, FiniteSets, TLC

VARIABLES
    points,     \* self._points: the configured rules, in order
    config,     \* self._config: the optional top-level keys base64decode, http
    tz,         \* the host's local UTC offset in seconds
    now,        \* the wall clock, epoch seconds
    ticks,      \* number of clock advances so far
    pc,         \* position of the handler: idle, loop, done, raised
    message,    \* the inbound message being handled
    idx,        \* index of the point the loop is at
    msg,        \* the handler's local msg (the message context), NoMsg = None
    payload,    \* the handler's local payload
    record,     \* the handler's local record (the last one constructed)
    outcomes,   \* per point, how its loop iteration ended for this message
    exc,        \* the exception that escaped the handler, "none" if none
    writes,     \* calls of write_points during this handler invocation
    https       \* HTTP requests issued during this handler invocation

vars == <<points, config, tz, now, ticks, pc, message, idx, msg, payload,
          record, outcomes, exc, writes, https>>

----------------------------------------------------------------------------
(* Bounds *)

MaxPoints == 2
MaxTicks == 1

----------------------------------------------------------------------------
(* Python values, tagged with their type; each type keeps its value under a
   field of its own *)

None == [t |-> "None"]
PyBool(b) == [t |-> "bool", b |-> b]
PyInt(n) == [t |-> "int", i |-> n]
PyFloat(n) == [t |-> "float", f |-> n]
PyStr(s) == [t |-> "str", s |-> s]
PyBytes(s) == [t |-> "bytes", bs |-> s]
PyList(s) == [t |-> "list", l |-> s]
PyDict(f) == [t |-> "dict", d |-> f]

\* the number an int or a float holds
Num(x) == IF x.t = "int" THEN x.i ELSE x.f

EmptyDict == PyDict(<<>>)

\* bool(x) / "if x" / "not x"
Truthy(x) ==
    CASE x.t = "None" -> FALSE
      [] x.t = "bool" -> x.b
      [] x.t \in {"int", "float"} -> Num(x) # 0
      [] x.t = "str" -> x.s # ""
      [] x.t = "bytes" -> Len(x.bs) > 0
      [] x.t = "list" -> Len(x.l) > 0
      [] x.t = "dict" -> DOMAIN x.d # {}

\* a call's result: the exception it raised ("none" if it returned) and the value
Ret(x) == [exc |-> "none", val |-> x]
Raise(e) == [exc |-> e, val |-> None]

Digits == <<"0", "1", "2", "3", "4", "5", "6", "7", "8", "9">>

RECURSIVE NatStr(_)
NatStr(n) == IF n < 10 THEN Digits[n + 1] ELSE NatStr(n \div 10) \o Digits[(n % 10) + 1]

\* str(n) of an int
IntStr(n) == IF n < 0 THEN "-" \o NatStr(-n) ELSE NatStr(n)

\* the ints whose decimal text int() and float() are asked to parse here
ParseRange == -9 .. 15

\* int(s) of a str: the int whose decimal text is s, else ValueError
ParseInt(s) ==
    IF \E n \in ParseRange : IntStr(n) = s
    THEN Ret(PyInt(CHOOSE n \in ParseRange : IntStr(n) = s))
    ELSE Raise("ValueError")

RECURSIVE ListStr(_)
\* str(x): the text of a bool, an int, a float, a str or a list of them
ToStr(x) ==
    CASE x.t = "bool" -> IF x.b THEN "True" ELSE "False"
      [] x.t = "int" -> IntStr(x.i)
      [] x.t = "float" -> IntStr(x.f) \o ".0"
      [] x.t = "str" -> x.s
      [] x.t = "list" -> "[" \o ListStr(x.l) \o "]"
ListStr(s) ==
    IF s = <<>> THEN ""
    ELSE IF Len(s) = 1 THEN ToStr(Head(s))
    ELSE ToStr(Head(s)) \o ", " \o ListStr(Tail(s))

\* float(s) of a str, from the parse of its decimal text
AsFloat(r) == IF r.exc = "none" THEN Ret(PyFloat(r.val.i)) ELSE r

\* the members of the builtins module the configurations name
BuiltinNames == {"int", "float", "str", "bool", "abs"}

\* getattr(builtins, name, None): the callable, or "" for None
GetBuiltin(name) == IF name \in BuiltinNames THEN name ELSE ""

\* convFunc(val) for the callables of BuiltinNames
CallBuiltin(f, x) ==
    CASE f = "int" ->
            CASE x.t = "bool" -> Ret(PyInt(IF x.b THEN 1 ELSE 0))
              [] x.t \in {"int", "float"} -> Ret(PyInt(Num(x)))
              [] x.t = "str" -> ParseInt(x.s)
              [] x.t = "bytes" -> Raise("ValueError")
              [] OTHER -> Raise("TypeError")
      [] f = "float" ->
            CASE x.t = "bool" -> Ret(PyFloat(IF x.b THEN 1 ELSE 0))
              [] x.t \in {"int", "float"} -> Ret(PyFloat(Num(x)))
              [] x.t = "str" -> AsFloat(ParseInt(x.s))
              [] x.t = "bytes" -> Raise("ValueError")
              [] OTHER -> Raise("TypeError")
      [] f = "str" -> Ret(PyStr(ToStr(x)))
      [] f = "bool" -> Ret(PyBool(Truthy(x)))
      [] f = "abs" ->
            CASE x.t = "bool" -> Ret(PyInt(IF x.b THEN 1 ELSE 0))
              [] x.t = "int" -> Ret(PyInt(IF x.i < 0 THEN -x.i ELSE x.i))
              [] x.t = "float" -> Ret(PyFloat(IF x.f < 0 THEN -x.f ELSE x.f))
              [] OTHER -> Raise("TypeError")

----------------------------------------------------------------------------
(* Configured value references: what config.py leaves in the rules *)

Lit(s) == [kind |-> "str", s |-> s]
Path(p) == [kind |-> "jsonpath", path |-> p]
\* the py_expression_eval.Expression "<var> * <mul>"; a variable name is the
\* sequence of its "__"-separated parts
Expr(var, mul) == [kind |-> "expr", var |-> var, mul |-> mul]
\* a field given as a dict {value, type}
Typed(ref, type) == [kind |-> "dict", value |-> ref, type |-> type]

\* jsonpath_ng find(): the matched values of a path of field names, as a list
RECURSIVE Find(_, _)
Find(path, datum) ==
    IF path = <<>> THEN <<datum>>
    ELSE IF datum.t = "dict" /\ Head(path) \in DOMAIN datum.d
         THEN Find(Tail(path), datum.d[Head(path)])
         ELSE <<>>

\* param.variables() of the one-variable expression
Variables(param) == <<param.var>>

\* var.startswith('JSON__')
StartsWithJSON(var) == Len(var) >= 2 /\ Head(var) = "JSON"

\* json_path(variable_to_jsonpath(var)): JSON__a__b is the path $.a.b
VariableToJsonpath(var) == Tail(var)

\* a * mul as py_expression_eval computes it, with Python's operator *
Mul(a, mul) ==
    CASE a.t = "bool" -> Ret(PyInt((IF a.b THEN 1 ELSE 0) * mul))
      [] a.t = "int" -> Ret(PyInt(a.i * mul))
      [] a.t = "float" -> Ret(PyFloat(a.f * mul))
      [] a.t = "str" /\ mul = 2 -> Ret(PyStr(a.s \o a.s))
      [] a.t = "list" /\ mul = 2 -> Ret(PyList(a.l \o a.l))
      [] a.t = "bytes" /\ mul = 2 -> Ret(PyBytes(a.bs \o a.bs))
      [] OTHER -> Raise("TypeError")

\* param.evaluate(vars): an unbound variable raises Exception('undefined variable')
Evaluate(param, bound) ==
    IF param.var \in DOMAIN bound THEN Mul(bound[param.var], param.mul)
    ELSE Raise("Exception")

\* lines 243-247: bind var to the first match, if there is one
Bind(var, tmp, bound) == IF tmp # <<>> THEN (var :> tmp[1]) @@ bound ELSE bound

RECURSIVE BindVars(_, _, _)
\* lines 238-249: the loop binding the expression's variables
BindVars(vs, m, bound) ==
    IF vs = <<>> THEN bound
    ELSE IF StartsWithJSON(Head(vs))
         THEN BindVars(Tail(vs), m,
                       Bind(Head(vs), Find(VariableToJsonpath(Head(vs)), m), bound))
         ELSE BindVars(Tail(vs), m, bound)

\* lines 234-235: the first match's value, else the implicit None
FirstMatch(tmp) == IF tmp # <<>> THEN Ret(tmp[1]) ELSE Ret(None)

\* _get_value_from_str_or_JSONPath(param, msg)
GetValue(param, m) ==
    CASE param.kind = "str" -> Ret(PyStr(param.s))
      [] param.kind = "jsonpath" -> FirstMatch(Find(param.path, m))
      [] param.kind = "expr" -> Evaluate(param, BindVars(Variables(param), m, <<>>))

----------------------------------------------------------------------------
(* The inbound message and its decoding *)

\* message bodies: whether the bytes are valid UTF-8, and the text they decode to
Body(utf8, text) == [utf8 |-> utf8, text |-> text]

TextFull == "{\"name\": \"dev\", \"timestamp\": 7, \"value\": 5, \"neg\": -5, \"on\": true, \"data\": \"AQ==\"}"
TextOdd == "{\"timestamp\": \"abc\", \"value\": \"abc\", \"on\": false, \"list\": [1]}"

Bodies == {Body(FALSE, ""), Body(TRUE, ""), Body(TRUE, "hello"),
           Body(TRUE, TextFull), Body(TRUE, TextOdd)}

\* message.payload.decode('utf-8')
Decode(body) == IF body.utf8 THEN Ret(PyStr(body.text)) ELSE Raise("UnicodeDecodeError")

\* json.loads(text) on the texts of Bodies
JsonLoads(text) ==
    CASE text = "null" -> Ret(None)
      [] text = TextFull ->
            Ret(PyDict([name |-> PyStr("dev"), timestamp |-> PyInt(7), value |-> PyInt(5),
                        neg |-> PyInt(-5), on |-> PyBool(TRUE), data |-> PyStr("AQ==")]))
      [] text = TextOdd ->
            Ret(PyDict([timestamp |-> PyStr("abc"), value |-> PyStr("abc"),
                        on |-> PyBool(FALSE), list |-> PyList(<<PyInt(1)>>)]))
      [] OTHER -> Raise("JSONDecodeError")

\* lines 114-119: the parsed JSON, or the text itself when it does not parse
LoadsOrText(js, text) == IF js.exc = "none" THEN js ELSE Ret(PyStr(text))

\* lines 112-119: the payload of a decoded text
ParseText(text) == LoadsOrText(JsonLoads(IF text = "" THEN "null" ELSE text),
                               IF text = "" THEN "null" ELSE text)

\* lines 110-119: the payload the handler works with, or the escaping exception
ParsePayload(body) ==
    IF Decode(body).exc # "none" THEN Decode(body) ELSE ParseText(body.text)

\* lines 122-127: the message context
BuildMsg(m, pl) ==
    PyDict([topic |-> PyList([i \in 1 .. Len(m.topic) |-> PyStr(m.topic[i])]),
            payload |-> pl,
            timestamp |-> PyInt(m.timestamp),
            qos |-> PyInt(m.qos)])

\* paho's topic_matches_sub(sub, topic) on "/"-split topics
RECURSIVE TopicMatchesSub(_, _)
TopicMatchesSub(sub, topic) ==
    IF sub = <<>> THEN topic = <<>>
    ELSE IF Head(sub) = "#" THEN TRUE
    ELSE IF topic = <<>> THEN FALSE
    ELSE (Head(sub) = "+" \/ Head(sub) = Head(topic))
         /\ TopicMatchesSub(Tail(sub), Tail(topic))

\* pycron.is_now of the schedule "*/step * * * *", at the local time t
IsNow(schedule, t) == ((t \div 60) % 60) % schedule = 0

TwoDigits(n) == Digits[(n \div 10) + 1] \o Digits[(n % 10) + 1]

\* strftime('%Y-%m-%dT%H:%M:%SZ') of a reading within 1970-01-01
Strftime(secs) ==
    "1970-01-01T" \o TwoDigits(secs \div 3600) \o ":" \o TwoDigits((secs \div 60) % 60)
                  \o ":" \o TwoDigits(secs % 60) \o "Z"

\* datetime.utcnow().strftime(...)
UtcNow(t) == Strftime(t)

\* datetime.fromtimestamp(x).strftime(...): local time of epoch seconds x
FromTimestamp(x, offset) ==
    CASE x.t = "bool" -> Ret(Strftime((IF x.b THEN 1 ELSE 0) + offset))
      [] x.t \in {"int", "float"} -> Ret(Strftime(Num(x) + offset))
      [] OTHER -> Raise("TypeError")

\* lines 143-147: the rendered payload time, or the wall clock's when it raised
OrClock(r, t) == IF r.exc = "none" THEN r.val ELSE UtcNow(t)

\* the record's time if the payload's timestamp were never consulted
TimestampClockOnly(pl, t, offset) == UtcNow(t)

\* lines 139-147: the record's time
Timestamp(pl, t, offset) ==
    IF pl.t # "dict" THEN UtcNow(t)               \* payload.keys() raises, caught
    ELSE IF "timestamp" \notin DOMAIN pl.d THEN UtcNow(t)
    ELSE OrClock(FromTimestamp(pl.d["timestamp"], offset), t)

HexDigits == <<"0", "1", "2", "3", "4", "5", "6", "7", "8", "9", "a", "b", "c", "d", "e", "f">>

RECURSIVE Hex(_)
\* bytes.hex()
Hex(bs) ==
    IF bs = <<>> THEN ""
    ELSE HexDigits[(Head(bs) \div 16) + 1] \o HexDigits[(Head(bs) % 16) + 1] \o Hex(Tail(bs))

\* base64.b64decode(data) on the values a source reference yields here
B64Decode(data) ==
    IF data.t # "str" THEN Raise("TypeError")
    ELSE CASE data.s = "" -> Ret(PyBytes(<<>>))
           [] data.s = "AQ==" -> Ret(PyBytes(<<1>>))
           [] OTHER -> Raise("binascii.Error")

\* dict.update({key: val})
Update(d, key, val) == PyDict((key :> val) @@ d.d)

\* lines 157-159: the two updates of msg with the decoded bytes
Base64Update(target, dec, m) ==
    Update(Update(m, "base64decoded", PyDict(target :> PyDict("raw" :> dec))),
           "base64decoded", PyDict(target :> PyDict("hex" :> PyStr(Hex(dec.bs)))))

\* lines 156-159: decode and update, or the escaping exception
Base64Decoded(target, dec, m) ==
    IF dec.exc # "none" THEN [exc |-> dec.exc, msg |-> m]
    ELSE [exc |-> "none", msg |-> Base64Update(target, dec.val, m)]

\* lines 155-159: the resolved source, decoded
Base64Data(target, data, m) ==
    IF data.exc # "none" THEN [exc |-> data.exc, msg |-> m]
    ELSE Base64Decoded(target, B64Decode(data.val), m)

\* lines 154-159: the base64 side channel
Base64Step(cfg, m) ==
    Base64Data(cfg.base64decode.target, GetValue(cfg.base64decode.source, m), m)

----------------------------------------------------------------------------
(* The loop body of _on_mqtt_message *)

HasKey(items, key) == \E i \in 1 .. Len(items) : items[i][1] = key
ItemOf(items, key) == items[CHOOSE i \in 1 .. Len(items) : items[i][1] = key][2]

\* what one pass over a mapping of the rule produced
Loop(e, d) == [exc |-> e, dict |-> d]

\* lines 174-178: ValueError makes the value None, any other error escapes
SoftCall(c) == IF c.exc = "ValueError" THEN Ret(None) ELSE c

\* lines 171-178 if an unknown conversion dropped the value
ConvertUnknownDropped(r, convFunc) ==
    IF r.exc # "none" THEN r
    ELSE IF r.val = None THEN Ret(None)
    ELSE IF convFunc = "" THEN Ret(None)
    ELSE SoftCall(CallBuiltin(convFunc, r.val))

\* lines 171-178: the resolved value after the conversion; None stands for "continue"
Convert(r, convFunc) ==
    IF r.exc # "none" THEN r
    ELSE IF r.val = None THEN Ret(None)
    ELSE IF convFunc = "" THEN r
    ELSE SoftCall(CallBuiltin(convFunc, r.val))

\* lines 168-178: a field given as {value, type}
TypedField(spec, m) == Convert(GetValue(spec.value, m), GetBuiltin(spec.type))

\* lines 181-187: the legacy booltoint normalisation of a resolved bare field
Legacy(key, items, r) ==
    IF r.exc # "none" THEN r
    ELSE IF key = "value" /\ r.val.t = "bool" /\ HasKey(items, "type")
            /\ ItemOf(items, "type") = Lit("booltoint")
         THEN Ret(PyInt(IF r.val.b THEN 1 ELSE 0))
    ELSE IF key = "type" /\ r.val = PyStr("booltoint") THEN Ret(PyStr("int"))
    ELSE r

\* lines 180-187: a field given as a bare reference
BareField(key, items, m) == Legacy(key, items, GetValue(ItemOf(items, key), m))

\* lines 168-187: the value of the i-th configured field
FieldValue(items, i, m) ==
    IF items[i][2].kind = "dict" THEN TypedField(items[i][2], m)
    ELSE BareField(items[i][1], items, m)

\* lines 188-191 and 202-205: a None value is skipped, any other is stored
Store(acc, key, r) == IF r.val = None THEN acc ELSE Update(acc, key, r.val)

RECURSIVE FieldsLoop(_, _, _, _)
RECURSIVE FieldsNext(_, _, _, _, _)
\* lines 167-191: the loop over point['fields'], from item i on
FieldsLoop(items, i, m, acc) ==
    IF i > Len(items) THEN Loop("none", acc)
    ELSE FieldsNext(items, i, m, acc, FieldValue(items, i, m))
FieldsNext(items, i, m, acc, r) ==
    IF r.exc # "none" THEN Loop(r.exc, acc)
    ELSE FieldsLoop(items, i + 1, m, Store(acc, items[i][1], r))

\* line 164: the whole field set taken from one path lookup
WholeFields(r) == Loop(r.exc, r.val)

\* lines 161-193: record['fields']
Fields(point, m) ==
    IF "fields" \notin DOMAIN point THEN Loop("none", EmptyDict)
    ELSE IF point.fields.kind = "jsonpath" THEN WholeFields(GetValue(point.fields, m))
    ELSE FieldsLoop(point.fields.items, 1, m, EmptyDict)

RECURSIVE ResolveAll(_, _, _, _)
RECURSIVE ResolveNext(_, _, _, _, _)
\* lines 200-205 and 216-220: the loops over point['tags'] and point['httpcontent']
ResolveAll(items, i, m, acc) ==
    IF i > Len(items) THEN Loop("none", acc)
    ELSE ResolveNext(items, i, m, acc, GetValue(items[i][2], m))
ResolveNext(items, i, m, acc, r) ==
    IF r.exc # "none" THEN Loop(r.exc, acc)
    ELSE ResolveAll(items, i + 1, m, Store(acc, items[i][1], r))

\* lines 199-208: record['tags']
Tags(point, m) ==
    IF "tags" \notin DOMAIN point THEN Loop("none", EmptyDict)
    ELSE ResolveAll(point.tags, 1, m, EmptyDict)

\* how an iteration ended, and the locals and sink calls it leaves
Res(outcome, e, m, pl, rec, w, h) ==
    [outcome |-> outcome, exc |-> e, msg |-> m, payload |-> pl, record |-> rec,
     writes |-> w, https |-> h]

\* point.get('database', None)
Database(point) == IF "database" \in DOMAIN point THEN PyStr(point.database) ELSE None

\* lines 222-226: the request, if the configured action names one
Forward(cfg, m, pl, rec, w, h) ==
    IF h.exc # "none" THEN Res("raised", h.exc, m, pl, rec, w, <<>>)
    ELSE IF cfg.http.action \in {"post", "put"}
         THEN Res("written", "none", m, pl, rec, w,
                  <<[action |-> cfg.http.action, data |-> h.dict]>>)
    ELSE Res("written", "none", m, pl, rec, w, <<>>)

\* lines 214-226: the HTTP forward after the write
HttpStep(point, cfg, m, pl, rec, w) ==
    IF "http" \notin DOMAIN cfg THEN Res("written", "none", m, pl, rec, w, <<>>)
    ELSE IF "httpcontent" \notin DOMAIN point
         THEN Res("raised", "KeyError", m, pl, rec, w, <<>>)
    ELSE Forward(cfg, m, pl, rec, w, ResolveAll(point.httpcontent, 1, m, EmptyDict))

\* lines 210-226: the write of the finished record, then the forward
WriteStep(point, cfg, m, pl, rec) ==
    HttpStep(point, cfg, m, pl, rec, <<[record |-> rec, database |-> Database(point)]>>)

\* record['tags'] filled in
WithTags(rec, g) == [rec EXCEPT !.tags = g.dict]

\* lines 199-226: tags, the write and the forward
TagsStep(point, cfg, m, pl, rec, g) ==
    IF g.exc # "none" THEN Res("raised", g.exc, m, pl, WithTags(rec, g), <<>>, <<>>)
    ELSE WriteStep(point, cfg, m, pl, WithTags(rec, g))

\* lines 195-226 if the empty check were missing
FieldsStepNoEmptyCheck(point, cfg, m, pl, rec) ==
    TagsStep(point, cfg, m, pl, rec, Tags(point, m))

\* lines 195-226: the empty check, then tags, the write and the forward
FieldsStep(point, cfg, m, pl, rec) ==
    IF ~Truthy(rec.fields) THEN Res("emptyfields", "none", m, pl, rec, <<>>, <<>>)
    ELSE TagsStep(point, cfg, m, pl, rec, Tags(point, m))

\* record['fields'] filled in
WithFields(rec, f) == [rec EXCEPT !.fields = f.dict]

\* lines 161-226: the fields resolved, then the rest of the iteration
Emit(point, cfg, m, pl, rec0, f) ==
    IF f.exc # "none" THEN Res("raised", f.exc, m, pl, WithFields(rec0, f), <<>>, <<>>)
    ELSE FieldsStep(point, cfg, m, pl, WithFields(rec0, f))

\* lines 161-226: fields, the empty check, tags, the write and the forward
EmitStep(point, cfg, m, pl, rec0) == Emit(point, cfg, m, pl, rec0, Fields(point, m))

\* lines 154-226: the context after the base64 side channel, then the rest
AfterBase64(point, cfg, pl, rec0, b) ==
    IF b.exc # "none" THEN Res("raised", b.exc, b.msg, pl, rec0, <<>>, <<>>)
    ELSE EmitStep(point, cfg, b.msg, pl, rec0)

\* lines 149-226: the new record, the base64 side channel and the rest
RecordStep(point, cfg, m, pl, rec0) ==
    IF "base64decode" \notin DOMAIN cfg THEN EmitStep(point, cfg, m, pl, rec0)
    ELSE AfterBase64(point, cfg, pl, rec0, Base64Step(cfg, m))

\* lines 135-226: the measurement resolved, then the rest of the iteration
Build(point, cfg, m, pl, rec, t, offset, measurement) ==
    IF measurement.exc # "none"
    THEN Res("raised", measurement.exc, m, pl, rec, <<>>, <<>>)
    ELSE IF measurement.val = None THEN Res("nomeas", "none", m, pl, rec, <<>>, <<>>)
    ELSE RecordStep(point, cfg, m, pl,
                    [measurement |-> measurement.val, time |-> Timestamp(pl, t, offset),
                     tags |-> EmptyDict, fields |-> EmptyDict])

\* lines 134-226: measurement, time, the new record and the rest
BuildStep(point, cfg, m, pl, rec, t, offset) ==
    Build(point, cfg, m, pl, rec, t, offset, GetValue(point.measurement, m))

\* lines 128-132: the schedule gate
GateStep(point, cfg, m, pl, rec, t, offset) ==
    IF "schedule" \in DOMAIN point /\ ~IsNow(point.schedule, t + offset)
    THEN Res("skipped", "none", m, pl, rec, <<>>, <<>>)
    ELSE BuildStep(point, cfg, m, pl, rec, t, offset)

\* lines 109-127: the first matching rule decodes the body and builds the context
FirstMatchStep(point, cfg, mess, m, pl, rec, t, offset, pp) ==
    IF pp.exc # "none" THEN Res("raised", pp.exc, m, pl, rec, <<>>, <<>>)
    ELSE GateStep(point, cfg, BuildMsg(mess, pp.val), pp.val, rec, t, offset)

\* lines 108-226: one iteration of "for point in self._points"
Iteration(point, cfg, mess, m, pl, rec, t, offset) ==
    IF ~TopicMatchesSub(point.topic, mess.topic)
    THEN Res("nomatch", "none", m, pl, rec, <<>>, <<>>)
    ELSE IF Truthy(m) THEN GateStep(point, cfg, m, pl, rec, t, offset)
    ELSE FirstMatchStep(point, cfg, mess, m, pl, rec, t, offset, ParsePayload(mess.payload))

----------------------------------------------------------------------------
(* Configurations and messages *)

DefaultHttp == <<<<"v", Path(<<"payload", "value">>)>>>>

Rule(measurement, fields) ==
    [topic |-> <<"s", "+">>, measurement |-> measurement,
     fields |-> [kind |-> "map", items |-> fields], httpcontent |-> DefaultHttp]

RulePlain ==
    [Rule(Lit("m"),
          <<<<"f", Path(<<"payload", "value">>)>>,
            <<"hex", Path(<<"base64decoded", "t", "hex">>)>>,
            <<"raw", Path(<<"base64decoded", "t", "raw">>)>>>>)
        EXCEPT !.topic = <<"s", "#">>] @@
    [tags |-> <<<<"dev", Path(<<"payload", "name">>)>>, <<"site", Lit("lab")>>>>]

RuleScheduled ==
    Rule(Path(<<"payload", "name">>), <<<<"f", Lit("x")>>>>)
        @@ [schedule |-> 2, database |-> "db2"]

RuleLegacy ==
    Rule(Lit("m"), <<<<"value", Path(<<"payload", "on">>)>>, <<"type", Lit("booltoint")>>>>)

RuleTyped ==
    Rule(Lit("m"),
         <<<<"a", Typed(Path(<<"payload", "value">>), "int")>>,
           <<"b", Typed(Path(<<"payload", "on">>), "booltoint")>>,
           <<"c", Typed(Path(<<"payload", "neg">>), "abs")>>,
           <<"d", Typed(Path(<<"payload", "neg">>), "nosuch")>>,
           <<"e", Typed(Path(<<"payload", "value">>), "str")>>,
           <<"g", Typed(Path(<<"payload", "value">>), "float")>>,
           <<"h", Typed(Path(<<"payload", "value">>), "bool")>>,
           <<"l", Typed(Path(<<"payload", "list">>), "int")>>>>)

RuleExpr ==
    Rule(Lit("m"),
         <<<<"k", Lit("x")>>, <<"e", Expr(<<"JSON", "payload", "value">>, 2)>>>>)

RuleExprNoPrefix ==
    Rule(Lit("m"), <<<<"e", Expr(<<"x">>, 2)>>, <<"k", Lit("x")>>>>)

RuleWhole ==
    [topic |-> <<"s", "+">>, measurement |-> Lit("m"), fields |-> Path(<<"payload">>)]

Rules == {RulePlain, RuleScheduled, RuleLegacy, RuleTyped, RuleExpr, RuleExprNoPrefix,
          RuleWhole}

PointLists == UNION {[1 .. n -> Rules] : n \in 1 .. MaxPoints}

BaseConfig == [mqtt |-> "broker", influxdb |-> "db"]
Base64Config == [base64decode |-> [source |-> Path(<<"payload", "data">>), target |-> "t"]]
HttpConfig == [http |-> [action |-> "post", destination |-> "url"]]

Configs == {BaseConfig, BaseConfig @@ HttpConfig, BaseConfig @@ Base64Config @@ HttpConfig}

TzOffsets == {0, 3600}

Messages ==
    {[topic |-> <<"s", "a">>, payload |-> b, timestamp |-> 3, qos |-> 0] : b \in Bodies}
    \cup {[topic |-> <<"t">>, payload |-> Body(TRUE, TextFull), timestamp |-> 3, qos |-> 0]}

NoMessage == [topic |-> <<>>, payload |-> Body(TRUE, ""), timestamp |-> 0, qos |-> 0]

----------------------------------------------------------------------------
(* The state machine *)

Init ==
    /\ points \in PointLists
    /\ config \in Configs
    /\ tz \in TzOffsets
    /\ now = 0
    /\ ticks = 0
    /\ pc = "idle"
    /\ message = NoMessage
    /\ idx = 1
    /\ msg = None
    /\ payload = None
    /\ record = None
    /\ outcomes = <<>>
    /\ exc = "none"
    /\ writes = <<>>
    /\ https = <<>>

\* the host clock advances by a minute
Tick ==
    /\ ticks < MaxTicks
    /\ ticks' = ticks + 1
    /\ now' = now + 60
    /\ UNCHANGED <<points, config, tz, pc, message, idx, msg, payload, record,
                   outcomes, exc, writes, https>>

\* lines 101-104: paho calls the handler with an inbound message; an exception
\* that left the handler has ended loop_forever, so none arrives after one
OnMessage ==
    /\ pc \in {"idle", "done"}
    /\ \E m \in Messages : message' = m
    /\ pc' = "loop"
    /\ idx' = 1
    /\ msg' = None
    /\ payload' = None
    /\ record' = None
    /\ outcomes' = <<>>
    /\ exc' = "none"
    /\ writes' = <<>>
    /\ https' = <<>>
    /\ UNCHANGED <<points, config, tz, now, ticks>>

\* the locals, sink calls and position an iteration leaves
Apply(r) ==
    /\ msg' = r.msg
    /\ payload' = r.payload
    /\ record' = r.record
    /\ outcomes' = Append(outcomes, r.outcome)
    /\ exc' = r.exc
    /\ writes' = writes \o r.writes
    /\ https' = https \o r.https
    /\ pc' = CASE r.outcome = "raised" -> "raised"
               [] r.outcome \in {"nomeas", "emptyfields"} -> "done"
               [] OTHER -> "loop"
    /\ idx' = IF r.outcome \in {"nomatch", "skipped", "written"} THEN idx + 1 ELSE idx

\* lines 106-226: the loop body for points[idx]
PointStep ==
    /\ pc = "loop"
    /\ idx <= Len(points)
    /\ Apply(Iteration(points[idx], config, message, msg, payload, record, now, tz))
    /\ UNCHANGED <<points, config, tz, now, ticks, message>>

\* the loop is exhausted and the handler returns
Return ==
    /\ pc = "loop"
    /\ idx > Len(points)
    /\ pc' = "done"
    /\ UNCHANGED <<points, config, tz, now, ticks, message, idx, msg, payload, record,
                   outcomes, exc, writes, https>>

Next == Tick \/ OnMessage \/ PointStep \/ Return

Spec == Init /\ [][Next]_vars

TypeOK ==
    /\ pc \in {"idle", "loop", "done", "raised"}
    /\ idx \in 1 .. Len(points) + 1
    /\ Len(outcomes) <= Len(points)

----------------------------------------------------------------------------
(* Vocabulary of the properties *)

\* the iteration that ran last for the current message, and its rule
Last == Len(outcomes)
LastPoint == points[Last]

MapFields(point) == "fields" \in DOMAIN point /\ point.fields.kind = "map"

\* the value reference of a configured field, typed or bare
RefOf(spec) == IF spec.kind = "dict" THEN spec.value ELSE spec

\* the value references a rule configures for its field set
FieldRefs(point) ==
    IF "fields" \notin DOMAIN point THEN <<>>
    ELSE IF point.fields.kind = "jsonpath" THEN <<point.fields>>
    ELSE [i \in 1 .. Len(point.fields.items) |-> RefOf(point.fields.items[i][2])]

AllFieldsNull(point, m) ==
    /\ FieldRefs(point) # <<>>
    /\ \A i \in 1 .. Len(FieldRefs(point)) : GetValue(FieldRefs(point)[i], m) = Ret(None)

\* the last iteration got as far as resolving the rule's fields
ReachedFields ==
    /\ Last >= 1
    /\ outcomes[Last] \in {"written", "emptyfields", "raised"}
    /\ Truthy(msg)
    /\ GetValue(LastPoint.measurement, msg).exc = "none"
    /\ GetValue(LastPoint.measurement, msg).val # None
    /\ "base64decode" \in DOMAIN config => "base64decoded" \in DOMAIN msg.d

\* the last iteration ran the loop over the rule's fields to its end
FieldsDone == ReachedFields /\ MapFields(LastPoint) /\ Fields(LastPoint, msg).exc = "none"

PrimitiveNames == {"int", "float", "str", "bool"}

\* a message body that is not valid UTF-8 or not valid JSON
BadBody(body) == ~body.utf8 \/ (body.text # "" /\ JsonLoads(body.text).exc # "none")

\* a path lookup with no match, or an expression with a placeholder that cannot be bound
Miss(ref, m) ==
    \/ ref.kind = "jsonpath" /\ Find(ref.path, m) = <<>>
    \/ /\ ref.kind = "expr"
       /\ ~StartsWithJSON(ref.var) \/ Find(VariableToJsonpath(ref.var), m) = <<>>

\* the time the record of this step must carry
ExpectedTime(pl, t, offset) ==
    IF pl.t = "dict" /\ "timestamp" \in DOMAIN pl.d /\ pl.d["timestamp"].t \in {"int", "float"}
    THEN Strftime(Num(pl.d["timestamp"]) + offset)
    ELSE Strftime(t)

----------------------------------------------------------------------------
(* Properties *)

\* C1: write_points is called for a rule only if the rule's measurement resolved
\* to a non-null value and the record's field set is non-empty (true in Python's
\* sense) at the write; when every configured field reference of the rule
\* resolves to null, no write occurs for it.
C1_WriteOnlyIfComplete ==
    [][Len(writes') > Len(writes) =>
        LET w == writes'[Len(writes')]
        IN  /\ Len(writes') = Len(writes) + 1
            /\ w.record.measurement # None
            /\ w.record.measurement = GetValue(points[idx].measurement, msg').val
            /\ Truthy(w.record.fields)
            /\ ~AllFieldsNull(points[idx], msg')]_vars

\* C1 witness: one rule wrote, and the next rule, all of whose field references
\* resolved to null, ended without a write
C1_Witness ==
    /\ outcomes = <<"written", "emptyfields">>
    /\ Len(writes) = 1
    /\ AllFieldsNull(points[2], msg)

\* C2: when an earlier matching rule is aborted for a null measurement or an
\* empty field set, a later matching rule whose iteration would write its record
\* (measurement non-null, field set non-empty) is still evaluated and written.
C2_FailureIsolation ==
    pc = "done" =>
        \A i \in 1 .. Last : outcomes[i] \in {"nomeas", "emptyfields"} =>
            \A j \in (i + 1) .. Len(points) :
                (/\ TopicMatchesSub(points[j].topic, message.topic)
                 /\ Iteration(points[j], config, message, msg, payload, record, now, tz).outcome
                        = "written")
                => /\ Last >= j
                   /\ outcomes[j] = "written"

\* C3: an iteration for a matching rule whose schedule is inactive now writes
\* nothing, forwards nothing, adds no base64decoded entry to the message
\* context, and the loop goes on to the next rule.
C3_ScheduleSkip ==
    [][(/\ pc = "loop"
        /\ Len(outcomes') > Len(outcomes)
        /\ TopicMatchesSub(points[idx].topic, message.topic)
        /\ "schedule" \in DOMAIN points[idx]
        /\ ~IsNow(points[idx].schedule, now + tz))
       => /\ writes' = writes
          /\ https' = https
          /\ Truthy(msg) => msg' = msg
          /\ (Truthy(msg') /\ "base64decoded" \in DOMAIN msg'.d) => msg' = msg
          /\ pc' = "loop"
          /\ idx' = idx + 1]_vars

\* C4: once a matching rule has been reached for a message whose body is not
\* valid UTF-8 or not valid JSON, the message context holds a string payload
\* and no decoding error has escaped the handler.
C4_DecodeFailureSoft ==
    (/\ Last >= 1
     /\ \E i \in 1 .. Last : outcomes[i] # "nomatch"
     /\ BadBody(message.payload))
    => /\ exc \notin {"UnicodeDecodeError", "JSONDecodeError"}
       /\ Truthy(msg)
       /\ msg.d["payload"].t = "str"

\* C5: while resolving the fields of a rule, a field whose reference misses
\* (path without match, expression with an unbindable placeholder) resolves to
\* null and is left out of the record, and no error interrupts the field loop;
\* a tag reference that misses resolves to null as well.
C5_ResolutionMissIsNull ==
    (ReachedFields /\ MapFields(LastPoint)) =>
        /\ \A i \in 1 .. Len(LastPoint.fields.items) :
              Miss(RefOf(LastPoint.fields.items[i][2]), msg) =>
                  /\ GetValue(RefOf(LastPoint.fields.items[i][2]), msg) = Ret(None)
                  /\ Fields(LastPoint, msg).exc = "none"
                  /\ LastPoint.fields.items[i][1] \notin DOMAIN record.fields.d
        /\ "tags" \in DOMAIN LastPoint =>
              \A i \in 1 .. Len(LastPoint.tags) :
                  Miss(LastPoint.tags[i][2], msg) =>
                      /\ GetValue(LastPoint.tags[i][2], msg) = Ret(None)
                      /\ LastPoint.tags[i][1] \notin DOMAIN record.tags.d

\* C6: a field of type "booltoint" whose reference resolves to a boolean is
\* written as the integer 1 or 0, in the typed shape {value, type} and in the
\* legacy shape where the fields mapping itself has the keys value and type.
C6_BoolToInt ==
    FieldsDone =>
        \A i \in 1 .. Len(LastPoint.fields.items) :
            LET key == LastPoint.fields.items[i][1]
                spec == LastPoint.fields.items[i][2]
                val == GetValue(RefOf(spec), msg).val
                typed == spec.kind = "dict" /\ spec.type = "booltoint"
                legacy == /\ spec.kind # "dict"
                          /\ key = "value"
                          /\ HasKey(LastPoint.fields.items, "type")
                          /\ ItemOf(LastPoint.fields.items, "type") = Lit("booltoint")
            IN  ((typed \/ legacy) /\ val.t = "bool") =>
                    /\ key \in DOMAIN record.fields.d
                    /\ record.fields.d[key] = PyInt(IF val.b THEN 1 ELSE 0)

\* C7: a typed field whose conversion is one of int, float, str, bool and whose
\* non-null value that constructor cannot convert is left out of the record,
\* and the conversion failure does not interrupt the field loop.
C7_ConversionFailureSoft ==
    (ReachedFields /\ MapFields(LastPoint)) =>
        \A i \in 1 .. Len(LastPoint.fields.items) :
            LET key == LastPoint.fields.items[i][1]
                spec == LastPoint.fields.items[i][2]
                val == GetValue(spec.value, msg).val
            IN  (/\ spec.kind = "dict"
                 /\ spec.type \in PrimitiveNames
                 /\ GetValue(spec.value, msg).exc = "none"
                 /\ val # None
                 /\ CallBuiltin(spec.type, val).exc # "none")
                => /\ Fields(LastPoint, msg).exc = "none"
                   /\ key \notin DOMAIN record.fields.d

C9_TimestampPrecedence ==
    [][(/\ Len(outcomes') > Len(outcomes)
        /\ outcomes'[Len(outcomes')] \notin {"nomatch", "skipped", "nomeas"}
        /\ Truthy(msg')
        /\ GetValue(points[idx].measurement, msg').exc = "none")
       => /\ record' # None
          /\ record'.time = ExpectedTime(payload', now, tz)
          /\ Len(writes') > Len(writes) =>
                writes'[Len(writes')].record.time = ExpectedTime(payload', now, tz)]_vars

\* C9 witness: a written record carries the rendering of the payload's
\* timestamp 7, which is not the wall clock's reading
C9_Witness ==
    /\ Len(writes) >= 1
    /\ payload.t = "dict"
    /\ "timestamp" \in DOMAIN payload.d
    /\ payload.d["timestamp"] = PyInt(7)
    /\ writes[Len(writes)].record.time = Strftime(7 + tz)
    /\ writes[Len(writes)].record.time # UtcNow(now)

\* C10: with the base64 side channel configured, when a rule's fields are
\* resolved the context holds under base64decoded.<target> both the decoded
\* bytes (raw) and their hex string (hex).
C10_Base64RawAndHex ==
    (ReachedFields /\ "base64decode" \in DOMAIN config) =>
        LET entry == msg.d["base64decoded"].d[config.base64decode.target]
        IN  /\ DOMAIN entry.d = {"raw", "hex"}
            /\ entry.d["raw"].t = "bytes"
            /\ entry.d["hex"] = PyStr(Hex(entry.d["raw"].bs))

====
